---- MODULE Spec2Model ----
(***************************************************************************)
(* SpotifytoUG: copy the track list of a Spotify playlist into a playlist  *)
(* on Ultimate Guitar by driving a browser.                                *)
(*                                                                         *)
(* The model follows one invocation of PlaylistSyncer.sync_playlist        *)
(* (specification Spec) or PlaylistSyncer.preview_sync (specification      *)
(* SpecPreview): the paginated source read of SpotifyClient, the browser   *)
(* session of UltimateGuitarClient held by `async with`, and the attach    *)
(* loop.                                                                   *)
(*                                                                         *)
(* Strings that the code trims or compares (playlist names) are sequences  *)
(* of characters; <<>> is the empty string and also stands for None, which *)
(* the code only ever tests for truthiness.                                *)
(***************************************************************************)
EXTENDS Integers, Sequences, FiniteSets, TLC

\* ------------------------------------------------------------------ bounds
\* preview_sync: number of result pages and items per page of the source
MaxPages == 2
MaxPageLen == 2
\* sync_playlist: number of result pages and items per page of the source
MaxSyncPages == 2
MaxSyncPageLen == 1
\* UltimateGuitarClient on its own: number of method calls on one page
MaxCalls == 2
\* main: number of tracks of the source playlist
MaxMainTracks == 2

\* ------------------------------------------------------------- the source
Kinds == {"track", "episode", "none"}

\* The artists of the k-th playlist entry: one or two, in source order.
ArtistsOf(k) == IF k % 2 = 1 THEN <<"X">> ELSE <<"Y", "X">>

\* One entry of a page's 'items'. has_track = FALSE is item['track'] = None.
MkItem(kind, k) ==
    [has_track |-> kind # "none",
     type      |-> IF kind = "none" THEN "none" ELSE kind,
     name      |-> <<"Song", k>>,
     artists   |-> ArtistsOf(k),
     album     |-> <<"Album", k>>,
     id        |-> k]

RECURSIVE Offset(_, _)
Offset(kp, p) == IF p = 1 THEN 0 ELSE Offset(kp, p - 1) + Len(kp[p - 1])

\* The pages the service serves for a choice of item kinds; every entry of
\* the playlist is a distinct item, numbered by its position in the source.
Number(kp) ==
    [p \in 1..Len(kp) |->
        [j \in 1..Len(kp[p]) |-> MkItem(kp[p][j], Offset(kp, p) + j)]]

PageShapes(kinds, maxLen) == UNION {[1..m -> kinds] : m \in 0..maxLen}

SourcePages(kinds, maxPages, maxLen) ==
    {Number(kp) : kp \in UNION {[1..n -> PageShapes(kinds, maxLen)] : n \in 1..maxPages}}

\* a cursor that is dropped one page early
NextCursorEarly(ps, p) == IF p + 1 < Len(ps) THEN p + 1 ELSE 0

\* results['next'] of page p: the cursor of the following page, 0 for None.
NextCursor(ps, p) == IF p < Len(ps) THEN p + 1 ELSE 0

SourceName == <<"a">>
SourceInfo == [name |-> SourceName, owner |-> "owner"]
EmptyInfo == [name |-> <<>>, owner |-> ""]

\* ------------------------------------------------------------ the target
\* --name of the command line; <<>> is no override.
Overrides == {<<>>, <<"b">>, <<"a", " ">>}

\* text_content() of the playlist name elements of the playlists page.
SiteLists ==
    {<<>>, << <<"a">> >>, << <<" ", "a", " ">>, <<"c">> >>, << <<>>, <<"b">>, <<"A">> >>}

\* the same, for the client on its own
ClientSiteLists == SiteLists \cup {<< <<" ">>, <<"a", " ">> >>}

\* ------------------------------------------------------- pure operations
Range(s) == {s[k] : k \in 1..Len(s)}

\* only the first artist is kept
JoinFirstOnly(names) == IF Len(names) = 0 THEN <<>> ELSE <<names[1]>>

\* ', '.join(names)
RECURSIVE Join(_)
Join(names) ==
    IF Len(names) = 0 THEN <<>>
    ELSE IF Len(names) = 1 THEN <<names[1]>>
    ELSE <<names[1], ", ">> \o Join(Tail(names))

\* the media type is not looked at
IsTrackItemAnyType(item) == item.has_track

\* item['track'] and item['track']['type'] == 'track'
IsTrackItem(item) == item.has_track /\ item.type = "track"

\* the track_info dictionary built for one item
TrackInfo(item) ==
    [name       |-> item.name,
     artist     |-> Join(item.artists),
     album      |-> item.album,
     spotify_id |-> item.id]

\* the for loop over results['items']: tracks with the page's tracks appended
RECURSIVE AppendPage(_, _)
AppendPage(acc, items) ==
    IF Len(items) = 0 THEN acc
    ELSE AppendPage(IF IsTrackItem(items[1]) THEN Append(acc, TrackInfo(items[1])) ELSE acc,
                    Tail(items))

\* str.strip() on a sequence of characters
RECURSIVE LStrip(_)
LStrip(s) == IF Len(s) > 0 /\ s[1] = " " THEN LStrip(Tail(s)) ELSE s

RECURSIVE RStrip(_)
RStrip(s) ==
    IF Len(s) > 0 /\ s[Len(s)] = " " THEN RStrip(SubSeq(s, 1, Len(s) - 1)) ELSE s

Strip(s) == RStrip(LStrip(s))

\* the loop over playlist_elements: the text of every element with a
\* truthy text, trimmed
RECURSIVE PlaylistNames(_)
PlaylistNames(texts) ==
    IF Len(texts) = 0 THEN <<>>
    ELSE (IF Len(texts[1]) > 0 THEN <<Strip(texts[1])>> ELSE <<>>)
         \o PlaylistNames(Tail(texts))

\* the override is dropped
ResolveNameSourceOnly(name, info) == info.name

\* target_playlist_name or playlist_info['name']
ResolveName(name, info) == IF Len(name) > 0 THEN name ELSE info.name

\* the name is trimmed before it is looked up
NotInExistingTrimmed(name, names) == Strip(name) \notin Range(names)

\* ug_playlist_name not in existing_playlists
NotInExisting(name, names) == name \notin Range(names)

\* 'no failure' reported instead of 'something was added'
SyncOutcomeNonNegative(adds) == adds >= 0

\* the comparison turned round
SyncOutcomeNone(adds) == adds = 0

\* return successful_adds > 0
SyncOutcome(adds) == adds > 0


\* ------------------------------------------------------------------ state
VARIABLES
    mode,              \* "sync" (sync_playlist) or "preview" (preview_sync)
    pages,             \* what the service serves for the playlist's tracks
    override,          \* target_playlist_name
    siteTexts,         \* the playlist name elements of the target site
    pc,                \* position of the invocation
    info,              \* playlist_info
    results,           \* get_playlist_tracks: cursor of the current page, 0 = None
    acc,               \* get_playlist_tracks: the local list 'tracks'
    requests,          \* page requests issued to the service
    tracks,            \* the caller's 'tracks'
    ug_playlist_name,
    existing,          \* existing_playlists
    i,                 \* enumerate(tracks, 1)
    successful_adds,
    failed_adds,
    retval,            \* value of the return statement inside the session body
    exc,               \* a BaseException is leaving the session body
    playwright,        \* the playwright driver is running
    browser,           \* the browser is open
    entered,           \* __aenter__ completed
    closed,            \* close_browser has run
    result,            \* what sync_playlist returned
    preview,           \* what preview_sync returned
    trace,             \* target-site operations and delays, in order
    reqlog,            \* requests to the service, in order, with their outcome
    signal,            \* the BaseException that left the session body
    method,            \* UltimateGuitarClient: the method being run, or "idle"
    stage,             \* UltimateGuitarClient: the next statement of the method
    ui,                \* UltimateGuitarClient: page calls of the current method
    ret,               \* UltimateGuitarClient: how the last method ended
    listed,            \* UltimateGuitarClient: value of the last method, if a list
    done,              \* UltimateGuitarClient: the methods that returned, in order
    args,              \* main: the parsed command line
    env,               \* main: the environment after load_dotenv
    config,            \* main: the Config object
    mpc,               \* main: position
    status,            \* main: the exit status of the process
    runs               \* two sync_playlist tasks on one event loop

src == <<mode, pages, override, siteTexts>>
fetch == <<info, results, acc, requests, tracks, reqlog>>
session == <<playwright, browser, entered, closed, runs>>
loop == <<i, successful_adds, failed_adds>>
client == <<method, stage, ui, ret, listed, done>>
cli == <<args, env, config, mpc, status>>
sequencer == <<pc, ug_playlist_name, existing, retval, exc, signal, result,
               preview, trace>>
vars == <<mode, pages, override, siteTexts, pc, info, results, acc, requests,
          tracks, ug_playlist_name, existing, i, successful_adds, failed_adds,
          retval, exc, playwright, browser, entered, closed, result, preview,
          trace, reqlog, signal, method, stage, ui, ret, listed, done, args, env,
          config, mpc, status, runs>>

Event(op, name, song, out) == [op |-> op, name |-> name, song |-> song, out |-> out]

\* every call is made with the first track
SearchEventFirstTrack(name, k, trks, out) ==
    Event("search", name, k, out) @@
    [song_name |-> trks[1].name, artist_name |-> trks[1].artist]

\* search_and_add_song(song_name=track['name'], artist_name=track['artist'],
\* playlist_name=ug_playlist_name) for the k-th track
SearchEvent(name, k, trks, out) ==
    Event("search", name, k, out) @@
    [song_name |-> trks[k].name, artist_name |-> trks[k].artist]

\* the two tasks: each is a sync_playlist call past its source read, with
\* the UltimateGuitarClient it has just constructed (browser = page = None,
\* written 0), the operations it awaits and the pages it has used; objects
\* counts the driver, browser and page objects created so far, open holds
\* the browsers that are open
Tasks == {1, 2}

NoRuns ==
    [task    |-> [t \in Tasks |-> [pc |-> "off", playwright |-> 0, browser |-> 0,
                                  page |-> 0, pos |-> 1, pending |-> {}, used |-> {}]],
     objects |-> 0,
     open    |-> {}]

InitCommon ==
    /\ runs = NoRuns
    /\ pc = "info"
    /\ info = EmptyInfo
    /\ results = 0
    /\ acc = <<>>
    /\ requests = 0
    /\ tracks = <<>>
    /\ ug_playlist_name = <<>>
    /\ existing = <<>>
    /\ i = 1
    /\ successful_adds = 0
    /\ failed_adds = 0
    /\ retval = FALSE
    /\ exc = FALSE
    /\ playwright = FALSE
    /\ browser = FALSE
    /\ entered = FALSE
    /\ closed = FALSE
    /\ result = FALSE
    /\ preview = [info |-> EmptyInfo, tracks |-> <<>>]
    /\ trace = <<>>
    /\ reqlog = <<>>
    /\ signal = "none"

\* no method of the client is being run on its own
ClientIdle ==
    /\ method = "idle"
    /\ stage = 0
    /\ ui = <<>>
    /\ ret = "none"
    /\ listed = <<>>
    /\ done = <<>>

\* os.getenv of a variable that is not set gives None
Absent == "<absent>"

Required == {"SPOTIFY_CLIENT_ID", "SPOTIFY_CLIENT_SECRET", "SPOTIFY_PLAYLIST_ID",
             "UG_USERNAME", "UG_PASSWORD"}
Optional == {"SPOTIFY_REDIRECT_URI", "HEADLESS_BROWSER", "LOG_LEVEL"}

NoEnv == [k \in Required \cup Optional |-> Absent]
NoArgs == [sync |-> FALSE, preview |-> FALSE, name |-> <<>>,
           headless |-> FALSE, visible |-> FALSE]
NoConfig == [k \in Required |-> Absent] @@
            [spotify_redirect_uri |-> Absent, headless_browser |-> FALSE,
             log_level |-> Absent]

\* sync_playlist or preview_sync is called directly, not from main
NoCli ==
    /\ args = NoArgs
    /\ env = NoEnv
    /\ config = NoConfig
    /\ mpc = "none"
    /\ status = "none"

Init ==
    /\ mode = "sync"
    /\ pages \in SourcePages({"track", "episode"}, MaxSyncPages, MaxSyncPageLen)
    /\ override \in Overrides
    /\ siteTexts \in SiteLists
    /\ InitCommon
    /\ ClientIdle
    /\ NoCli

InitPreview ==
    /\ mode = "preview"
    /\ pages \in SourcePages(Kinds, MaxPages, MaxPageLen)
    /\ override = <<>>
    /\ siteTexts = <<>>
    /\ InitCommon
    /\ ClientIdle
    /\ NoCli

\* ------------------------------------------------------ the source reader
\* the exception is swallowed and the caller goes on with what it has
SourceRaisedSwallowed ==
    /\ pc' = "fetched"
    /\ UNCHANGED <<result, preview>>

\* the exception leaves sync_playlist or preview_sync
SourceRaisedPropagates ==
    /\ pc' = "propagated"
    /\ UNCHANGED <<result, preview>>

\* An exception of the source reader reaches the except clause of the caller.
SourceRaised ==
    /\ pc' = "returned"
    /\ IF mode = "sync"
       THEN result' = FALSE /\ UNCHANGED preview
       ELSE preview' = [info |-> EmptyInfo, tracks |-> <<>>] /\ UNCHANGED result

\* what was collected so far is returned instead of the exception
TracksFailedPartial ==
    /\ pc' = "fetched"
    /\ tracks' = acc'
    /\ UNCHANGED <<result, preview>>

\* get_playlist_tracks: except Exception: log, raise
TracksFailed ==
    /\ SourceRaised
    /\ UNCHANGED tracks

\* spotify_client.get_playlist_info
GetPlaylistInfo ==
    /\ pc = "info"
    /\ \E ok \in BOOLEAN :
          /\ reqlog' = Append(reqlog, [req |-> "info", ok |-> ok])
          /\ IF ok
             THEN /\ info' = SourceInfo
                  /\ pc' = "first_page"
                  /\ UNCHANGED <<result, preview>>
             ELSE /\ SourceRaised
                  /\ UNCHANGED info
    /\ UNCHANGED <<client, cli, signal, src, results, acc, requests, tracks,
                   ug_playlist_name, existing,
                   loop, retval, exc, session, trace>>

\* get_playlist_tracks: tracks = []; results = self.sp.playlist_tracks(id)
PlaylistTracksRequest ==
    /\ pc = "first_page"
    /\ acc' = <<>>
    /\ requests' = requests + 1
    /\ \E ok \in BOOLEAN :
          /\ reqlog' = Append(reqlog, [req |-> "page 1", ok |-> ok])
          /\ IF ok
             THEN /\ results' = 1
                  /\ pc' = "page_loop"
                  /\ UNCHANGED <<tracks, result, preview>>
             ELSE /\ TracksFailed
                  /\ UNCHANGED results
    /\ UNCHANGED <<client, cli, signal, src, info, ug_playlist_name, existing, loop, retval,
                   exc, session, trace>>

\* get_playlist_tracks: one iteration of 'while results', and the return
\* that follows the last one
FetchIteration ==
    /\ pc = "page_loop"
    /\ results # 0
    /\ acc' = AppendPage(acc, pages[results])
    /\ IF NextCursor(pages, results) # 0
       THEN /\ requests' = requests + 1
            /\ \E ok \in BOOLEAN :
                  /\ reqlog' = Append(reqlog, [req |-> "next", ok |-> ok])
                  /\ IF ok
                     THEN /\ results' = NextCursor(pages, results)
                          /\ pc' = "page_loop"
                          /\ UNCHANGED <<tracks, result, preview>>
                     ELSE /\ TracksFailed
                          /\ UNCHANGED results
       ELSE /\ results' = 0
            /\ tracks' = acc'
            /\ pc' = "fetched"
            /\ UNCHANGED <<requests, reqlog, result, preview>>
    /\ UNCHANGED <<client, cli, signal, src, info, ug_playlist_name, existing, loop, retval, exc,
                   session, trace>>

\* a browser is started for the preview
PreviewReturnWithSession ==
    /\ pc = "fetched"
    /\ mode = "preview"
    /\ preview' = [info |-> info, tracks |-> tracks]
    /\ pc' = "returned"
    /\ playwright' = TRUE
    /\ browser' = TRUE
    /\ trace' = Append(trace, Event("start", <<>>, 0, "ok"))
    /\ UNCHANGED <<client, cli, signal, src, fetch, ug_playlist_name, existing,
                   loop, retval, exc, entered, closed, runs, result>>

\* preview_sync: return playlist_info, tracks
PreviewReturn ==
    /\ pc = "fetched"
    /\ mode = "preview"
    /\ preview' = [info |-> info, tracks |-> tracks]
    /\ pc' = "returned"
    /\ UNCHANGED <<client, cli, signal, src, fetch, ug_playlist_name, existing, loop, retval, exc,
                   session, result, trace>>


\* --------------------------------------------------------- the sequencer
\* the result of login() is ignored
AfterLoginIgnored(ok) == "list"

\* if not await ug_client.login(): return False
AfterLogin(ok) == IF ok THEN "list" ELSE "aexit"

\* the result of create_playlist() is ignored
AfterCreateIgnored(ok) == "loop"

\* a return that leaves the session without __aexit__
AfterCreateNoExit(ok) == IF ok THEN "loop" ELSE "returned"

\* if not await ug_client.create_playlist(...): return False
AfterCreate(ok) == IF ok THEN "loop" ELSE "aexit"

\* successful_adds after one attempt: 'if success: successful_adds += 1'
AddsAfter(out, n) == IF out = "True" THEN n + 1 ELSE n

\* the except clause does not count the attempt
FailedAfterNoExcept(out, n) == IF out = "False" THEN n + 1 ELSE n

\* failed_adds after one attempt: the else branch, and the except clause
FailedAfter(out, n) == IF out = "True" THEN n ELSE n + 1

\* the position after one attempt: asyncio.sleep(2) is the last statement of
\* the try block, which an exception of the call leaves
AfterAttempt(out) == IF out = "Raise" THEN "loop" ELSE "sleep"

\* ug_playlist_name = ...; async with UltimateGuitarClient(...) as ug_client:
\* __aenter__ runs start_browser, which re-raises what its three steps raise
EnterSession ==
    /\ pc = "fetched"
    /\ mode = "sync"
    /\ ug_playlist_name' = ResolveName(override, info)
    /\ \E out \in {"ok", "start_raises", "launch_raises", "new_page_raises"} :
          /\ playwright' = (out # "start_raises")
          /\ browser' = (out \in {"ok", "new_page_raises"})
          /\ IF out = "ok"
             THEN /\ entered' = TRUE
                  /\ pc' = "login"
                  /\ trace' = Append(trace, Event("start", <<>>, 0, "ok"))
                  /\ UNCHANGED result
             ELSE /\ result' = FALSE
                  /\ pc' = "returned"
                  /\ UNCHANGED <<entered, trace>>
    /\ UNCHANGED <<client, cli, signal, src, fetch, existing, loop, retval, exc, closed,
                   runs, preview>>

\* if not await ug_client.login(): return False
Login ==
    /\ pc = "login"
    /\ \E ok \in BOOLEAN :
          /\ trace' = Append(trace, Event("login", <<>>, 0, IF ok THEN "True" ELSE "False"))
          /\ pc' = AfterLogin(ok)
    /\ retval' = FALSE
    /\ UNCHANGED <<client, cli, signal, src, fetch, ug_playlist_name, existing, loop, exc, session,
                   result, preview>>

\* existing_playlists = await ug_client.get_existing_playlists(), which
\* returns [] when anything in it raises, and the membership test
GetExistingPlaylists ==
    /\ pc = "list"
    /\ \E ok \in BOOLEAN :
          /\ existing' = IF ok THEN PlaylistNames(siteTexts) ELSE <<>>
          /\ trace' = Append(trace, Event("list", <<>>, 0, IF ok THEN "ok" ELSE "raised"))
    /\ pc' = IF NotInExisting(ug_playlist_name, existing') THEN "create" ELSE "loop"
    /\ UNCHANGED <<client, cli, signal, src, fetch, ug_playlist_name, loop, retval, exc, session,
                   result, preview>>

\* if not await ug_client.create_playlist(...): return False
CreatePlaylist ==
    /\ pc = "create"
    /\ \E ok \in BOOLEAN :
          /\ trace' = Append(trace, Event("create", ug_playlist_name, 0,
                                          IF ok THEN "True" ELSE "False"))
          /\ pc' = AfterCreate(ok)
    /\ retval' = FALSE
    /\ UNCHANGED <<client, cli, signal, src, fetch, ug_playlist_name, existing, loop, exc, session,
                   result, preview>>

\* one attempt of the for loop: the call and the counting of its outcome
SearchAndAddSong ==
    /\ pc = "loop"
    /\ i <= Len(tracks)
    /\ \E out \in {"True", "False", "Raise"} :
          /\ trace' = Append(trace, SearchEvent(ug_playlist_name, i, tracks, out))
          /\ successful_adds' = AddsAfter(out, successful_adds)
          /\ failed_adds' = FailedAfter(out, failed_adds)
          /\ pc' = AfterAttempt(out)
          /\ i' = IF AfterAttempt(out) = "loop" THEN i + 1 ELSE i
    /\ UNCHANGED <<client, cli, signal, src, fetch, ug_playlist_name, existing, retval, exc, session,
                   result, preview>>

\* await asyncio.sleep(2)
Sleep ==
    /\ pc = "sleep"
    /\ trace' = Append(trace, Event("sleep", <<>>, i, "ok"))
    /\ i' = i + 1
    /\ pc' = "loop"
    /\ UNCHANGED <<client, cli, signal, src, fetch, ug_playlist_name, existing, successful_adds,
                   failed_adds, retval, exc, session, result, preview>>

\* after the loop: return successful_adds > 0
Report ==
    /\ pc = "loop"
    /\ i > Len(tracks)
    /\ retval' = SyncOutcome(successful_adds)
    /\ pc' = "aexit"
    /\ UNCHANGED <<client, cli, signal, src, fetch, ug_playlist_name, existing, loop, exc, session,
                   result, preview, trace>>

\* a BaseException raised at an await of the session body: KeyboardInterrupt
\* when the signal interrupts the coroutine's own code, CancelledError when
\* asyncio.run cancels the main task. No except clause of sync_playlist
\* catches either.
Interrupt ==
    /\ \/ pc \in {"login", "list", "create", "sleep"}
       \/ pc = "loop" /\ i <= Len(tracks)
    /\ exc' = TRUE
    /\ signal' \in {"KeyboardInterrupt", "CancelledError"}
    /\ pc' = "aexit"
    /\ UNCHANGED <<client, cli, src, fetch, ug_playlist_name, existing, loop, retval, session,
                   result, preview, trace>>

\* __aexit__: close_browser, which swallows what browser.close() or
\* playwright.stop() raises; then the return value or the exception leaves
\* sync_playlist
CloseBrowser ==
    /\ pc = "aexit"
    /\ \E out \in {"ok", "close_raises", "stop_raises"} :
          /\ browser' = (out = "close_raises")
          /\ playwright' = (out # "ok")
          /\ trace' = Append(trace, Event("close", <<>>, 0, out))
    /\ closed' = TRUE
    /\ IF exc
       THEN pc' = "propagated" /\ UNCHANGED result
       ELSE pc' = "returned" /\ result' = retval
    /\ UNCHANGED <<client, cli, signal, src, fetch, ug_playlist_name, existing, loop, retval, exc,
                   entered, runs, preview>>

\* ------------------------------------------ the target automator, by stage
\* A page call either completes or raises (a timeout, a closed page, ...);
\* query_selector completes with an element or with None.
Step(call, out) == [call |-> call, out |-> out]
Completed(out) == out \in {"ok", "found"}

\* the caller invokes a method on the page as the previous method left it
Call ==
    /\ stage = 0
    /\ Len(done) < MaxCalls
    /\ method' \in {"login", "list", "create", "search"}
    /\ stage' = 1
    /\ ui' = <<>>
    /\ ret' = "none"
    /\ listed' = <<>>
    /\ UNCHANGED <<done, cli, src, fetch, loop, session, sequencer>>

\* a method returns v
Return(v) ==
    /\ ret' = v
    /\ stage' = 0
    /\ done' = Append(done, [method |-> method, ret |-> v])

\* login: the statements before the wait for the post-login marker
LoginCalls == <<"goto signin", "wait form", "fill username", "fill password",
                "click submit">>

\* an exception of the except block is not caught by the enclosing try
LoginAfterErrorCheckLeaky(out) == IF out = "raise" THEN "raised" ELSE "False"

\* login: the except block after the marker wait; what it raises reaches
\* 'except Exception', which returns False as well
LoginAfterErrorCheck(out) == "False"

\* a marker wait that fails is taken as a login without error
LoginAfterMarkerOptimistic(out) == "True"

\* login: wait_for_selector(".js-header-user-menu"): return True, or the
\* bare except
LoginAfterMarker(out) == IF out = "ok" THEN "True" ELSE "check"

\* login, up to the click on the submit button
LoginStep ==
    /\ method = "login"
    /\ stage \in 1..Len(LoginCalls)
    /\ \E out \in {"ok", "raise"} :
          /\ ui' = Append(ui, Step(LoginCalls[stage], out))
          /\ IF out = "ok"
             THEN stage' = stage + 1 /\ UNCHANGED <<ret, done>>
             ELSE Return("False")
    /\ UNCHANGED <<method, listed, cli, src, fetch, loop, session, sequencer>>

\* login: the wait for the post-login marker
LoginMarker ==
    /\ method = "login"
    /\ stage = Len(LoginCalls) + 1
    /\ \E out \in {"ok", "raise"} :
          /\ ui' = Append(ui, Step("wait marker", out))
          /\ IF LoginAfterMarker(out) = "check"
             THEN stage' = stage + 1 /\ UNCHANGED <<ret, done>>
             ELSE Return(LoginAfterMarker(out))
    /\ UNCHANGED <<method, listed, cli, src, fetch, loop, session, sequencer>>

\* login: query_selector(".error-message") and text_content() in the except
\* block
LoginErrorCheck ==
    /\ method = "login"
    /\ \/ /\ stage = Len(LoginCalls) + 2
          /\ \E out \in {"found", "none", "raise"} :
                /\ ui' = Append(ui, Step("query error", out))
                /\ IF out = "found"
                   THEN stage' = stage + 1 /\ UNCHANGED <<ret, done>>
                   ELSE Return(LoginAfterErrorCheck(out))
       \/ /\ stage = Len(LoginCalls) + 3
          /\ \E out \in {"ok", "raise"} :
                /\ ui' = Append(ui, Step("error text", out))
                /\ Return(LoginAfterErrorCheck(out))
    /\ UNCHANGED <<method, listed, cli, src, fetch, loop, session, sequencer>>

\* get_existing_playlists: the statements before the loop over the elements
ListCalls == <<"goto playlists", "wait playlist item", "query names">>

\* only leading whitespace is removed
StripLeftOnly(s) == LStrip(s)

\* name.strip()
StripName(s) == Strip(s)

\* get_existing_playlists: goto, wait_for_selector, query_selector_all; with
\* no name element the loop is skipped
ListStep ==
    /\ method = "list"
    /\ stage \in 1..Len(ListCalls)
    /\ \E out \in {"ok", "raise"} :
          /\ ui' = Append(ui, Step(ListCalls[stage], out))
          /\ IF out = "raise"
             THEN Return("list")
             ELSE IF stage = Len(ListCalls) /\ Len(siteTexts) = 0
                  THEN Return("list")
                  ELSE stage' = stage + 1 /\ UNCHANGED <<ret, done>>
    /\ UNCHANGED <<method, listed, cli, src, fetch, loop, session, sequencer>>

\* get_existing_playlists: one element of the loop: text_content(), and the
\* append of the trimmed text if the text is truthy; an exception gives []
ListElement ==
    /\ method = "list"
    /\ stage > Len(ListCalls)
    /\ LET k == stage - Len(ListCalls) IN
       \E out \in {"ok", "raise"} :
          /\ ui' = Append(ui, Step("text_content", out))
          /\ IF out = "raise"
             THEN listed' = <<>> /\ Return("list")
             ELSE /\ listed' = IF Len(siteTexts[k]) > 0
                               THEN Append(listed, StripName(siteTexts[k]))
                               ELSE listed
                  /\ IF k = Len(siteTexts)
                     THEN Return("list")
                     ELSE stage' = stage + 1 /\ UNCHANGED <<ret, done>>
    /\ UNCHANGED <<method, cli, src, fetch, loop, session, sequencer>>

\* search_and_add_song: its page calls, in the order of the code
SearchCalls == <<"goto search", "wait results", "query first result",
                 "click first result", "settle", "query add control",
                 "click add control", "wait picker", "query playlist option",
                 "click playlist option">>

\* the calls that are query_selector
SearchQueries == {3, 6, 9}

\* a missing add control is passed over
SearchAfterLenient(n, out) ==
    IF Completed(out) \/ (n = 6 /\ out = "none")
    THEN (IF n = Len(SearchCalls) THEN "True" ELSE "next")
    ELSE "False"

\* an exception is not caught
SearchAfterLeaky(n, out) ==
    IF Completed(out) THEN (IF n = Len(SearchCalls) THEN "True" ELSE "next")
    ELSE IF out = "raise" THEN "raised" ELSE "False"

\* search_and_add_song: after the n-th call: the next call, return True after
\* the click on the playlist option, return False from an else branch or
\* from 'except Exception'
SearchAfter(n, out) ==
    IF Completed(out) THEN (IF n = Len(SearchCalls) THEN "True" ELSE "next")
    ELSE "False"

\* search_and_add_song, one page call
SearchStep ==
    /\ method = "search"
    /\ stage \in 1..Len(SearchCalls)
    /\ \E out \in (IF stage \in SearchQueries THEN {"found", "none", "raise"}
                                               ELSE {"ok", "raise"}) :
          /\ ui' = Append(ui, Step(SearchCalls[stage], out))
          /\ IF SearchAfter(stage, out) = "next"
             THEN stage' = stage + 1 /\ UNCHANGED <<ret, done>>
             ELSE Return(SearchAfter(stage, out))
    /\ UNCHANGED <<method, listed, cli, src, fetch, loop, session, sequencer>>

\* create_playlist: its page calls; of the three clicks on a "create"
\* control one is made
CreateCalls == <<"goto playlists",
                 "query a[href*='create']",
                 "query .btn-create-playlist",
                 "click a[href*='create']",
                 "click .btn-create-playlist",
                 "click .fa-plus, .icon-plus, [data-action='create']",
                 "wait form",
                 "fill name",
                 "query description",
                 "fill description",
                 "click submit",
                 "settle">>

\* the calls that are query_selector
CreateQueries == {2, 3, 9}

\* the first locator alone decides
CreateAfterNoFallback(n, out, described) ==
    CASE out = "raise" -> 0
      [] n = 2 -> IF out = "found" THEN 4 ELSE 0
      [] n = 3 -> IF out = "found" THEN 5 ELSE 6
      [] n \in {4, 5, 6} -> 7
      [] n = 9 -> IF out = "found" /\ described THEN 10 ELSE 11
      [] OTHER -> n + 1

\* True is returned right after the click on the submit button
CreateAfterNoSettle(n, out, described) ==
    CASE out = "raise" -> 0
      [] n = 2 -> IF out = "found" THEN 4 ELSE 3
      [] n = 3 -> IF out = "found" THEN 5 ELSE 6
      [] n \in {4, 5, 6} -> 7
      [] n = 9 -> IF out = "found" /\ described THEN 10 ELSE 11
      [] n = 11 -> 13
      [] OTHER -> n + 1

\* create_playlist: the call that follows the n-th call; 0 is 'return False'
\* of 'except Exception', Len(CreateCalls) + 1 is 'return True'. described
\* says that the description argument is not empty.
CreateAfter(n, out, described) ==
    CASE out = "raise" -> 0
      [] n = 2 -> IF out = "found" THEN 4 ELSE 3
      [] n = 3 -> IF out = "found" THEN 5 ELSE 6
      [] n \in {4, 5, 6} -> 7
      [] n = 9 -> IF out = "found" /\ described THEN 10 ELSE 11
      [] OTHER -> n + 1

\* create_playlist, one page call; sync_playlist always passes a description
CreateStep ==
    /\ method = "create"
    /\ stage \in 1..Len(CreateCalls)
    /\ \E out \in (IF stage \in CreateQueries THEN {"found", "none", "raise"}
                                               ELSE {"ok", "raise"}),
          described \in (IF mode = "sync" THEN {TRUE} ELSE BOOLEAN) :
          /\ ui' = Append(ui, Step(CreateCalls[stage], out))
          /\ LET nx == CreateAfter(stage, out, described) IN
             IF nx = 0 THEN Return("False")
             ELSE IF nx > Len(CreateCalls) THEN Return("True")
             ELSE stage' = nx /\ UNCHANGED <<ret, done>>
    /\ UNCHANGED <<method, listed, cli, src, fetch, loop, session, sequencer>>

InitClient ==
    /\ mode = "client"
    /\ pages = <<>>
    /\ override = <<>>
    /\ siteTexts \in ClientSiteLists
    /\ InitCommon
    /\ ClientIdle
    /\ NoCli

NextClient ==
    \/ Call
    \/ LoginStep
    \/ LoginMarker
    \/ LoginErrorCheck
    \/ ListStep
    \/ ListElement
    \/ SearchStep
    \/ CreateStep

SpecClient == InitClient /\ [][NextClient]_vars

\* ------------------------------ a sync run with create_playlist by stage
\* sync_playlist calls create_playlist(playlist_name=ug_playlist_name,
\* description=...)
CreateCalled ==
    /\ pc = "create"
    /\ pc' = "creating"
    /\ method' = "create"
    /\ stage' = 1
    /\ ui' = <<>>
    /\ ret' = "none"
    /\ UNCHANGED <<listed, done, cli, src, fetch, loop, session, ug_playlist_name,
                   existing, retval, exc, signal, result, preview, trace>>

\* create_playlist has returned: 'if not await ...: return False'
CreateReturned ==
    /\ pc = "creating"
    /\ stage = 0
    /\ trace' = Append(trace, Event("create", ug_playlist_name, 0, ret))
    /\ pc' = AfterCreate(ret = "True")
    /\ retval' = FALSE
    /\ UNCHANGED <<client, cli, src, fetch, loop, session, ug_playlist_name, existing,
                   exc, signal, result, preview>>

InitCreate ==
    /\ mode = "sync"
    /\ pages \in SourcePages({"track"}, 1, MaxMainTracks)
    /\ override \in Overrides
    /\ siteTexts \in SiteLists
    /\ InitCommon
    /\ ClientIdle
    /\ NoCli

NextCreate ==
    \/ GetPlaylistInfo
    \/ PlaylistTracksRequest
    \/ FetchIteration
    \/ EnterSession
    \/ Login
    \/ GetExistingPlaylists
    \/ CreateCalled
    \/ CreateStep
    \/ CreateReturned
    \/ SearchAndAddSong
    \/ Sleep
    \/ Report
    \/ Interrupt
    \/ CloseBrowser

SpecCreate == InitCreate /\ [][NextCreate]_vars

\* ------------------------------------------- two interleaved sync runs
\* Two sync_playlist coroutines run as tasks of one event loop, on one
\* PlaylistSyncer or on two: a task runs until an await on the browser
\* suspends it, and then the other may run. Each call constructs its own
\* UltimateGuitarClient (syncer.py 64), which is all the browser state there
\* is.

\* the target operations a task awaits, one after the other
TaskOps == <<"login", "list", "create", "search">>

\* one browser is kept and handed to every client
LaunchShared(open, fresh) == IF open # {} THEN CHOOSE b \in open : TRUE ELSE fresh

\* self.browser = await self.playwright.chromium.launch(...): a new browser
LaunchNew(open, fresh) == fresh

\* the position after the operation at pos returned ok; inList is the
\* outcome of the 'not in' test
TaskAfter(pos, ok, inList) ==
    CASE TaskOps[pos] = "login"  -> [pc |-> IF ok THEN "body" ELSE "aexit", pos |-> 2]
      [] TaskOps[pos] = "list"   -> [pc |-> "body", pos |-> IF inList THEN 4 ELSE 3]
      [] TaskOps[pos] = "create" -> [pc |-> IF ok THEN "body" ELSE "aexit", pos |-> 4]
      [] TaskOps[pos] = "search" -> [pc |-> "aexit", pos |-> 4]

TaskFrame == UNCHANGED <<client, cli, src, fetch, loop, playwright, browser, entered,
                         closed, sequencer>>

\* start_browser: self.playwright = await async_playwright().start()
TaskStartDriver(t) ==
    /\ runs.task[t].pc = "start"
    /\ runs' = [runs EXCEPT !.task[t].playwright = runs.objects + 1,
                            !.task[t].pc = "launch",
                            !.objects = @ + 1]
    /\ TaskFrame

\* start_browser: self.browser = await self.playwright.chromium.launch(...)
TaskLaunch(t) ==
    /\ runs.task[t].pc = "launch"
    /\ LET b == LaunchNew(runs.open, runs.objects + 1) IN
       runs' = [runs EXCEPT !.task[t].browser = b,
                            !.task[t].pc = "new_page",
                            !.objects = @ + 1,
                            !.open = @ \cup {b}]
    /\ TaskFrame

\* start_browser: self.page = await self.browser.new_page()
TaskNewPage(t) ==
    /\ runs.task[t].pc = "new_page"
    /\ runs' = [runs EXCEPT !.task[t].page = runs.objects + 1,
                            !.task[t].pc = "body",
                            !.objects = @ + 1]
    /\ TaskFrame

\* 'await ug_client.<operation>()': the operation starts on self.page and
\* the task is suspended
TaskBegin(t) ==
    /\ runs.task[t].pc = "body"
    /\ runs.task[t].pending = {}
    /\ runs' = [runs EXCEPT !.task[t].pending = @ \cup {TaskOps[runs.task[t].pos]},
                            !.task[t].used = @ \cup {runs.task[t].page}]
    /\ TaskFrame

\* the awaited operation returns and the task goes on
TaskComplete(t) ==
    /\ runs.task[t].pc = "body"
    /\ runs.task[t].pending # {}
    /\ \E ok \in BOOLEAN, inList \in BOOLEAN :
          LET nx == TaskAfter(runs.task[t].pos, ok, inList) IN
          runs' = [runs EXCEPT !.task[t].pending = {},
                               !.task[t].pc = nx.pc,
                               !.task[t].pos = nx.pos]
    /\ TaskFrame

\* __aexit__: close_browser closes self.browser and stops self.playwright
TaskClose(t) ==
    /\ runs.task[t].pc = "aexit"
    /\ runs' = [runs EXCEPT !.task[t].pc = "returned",
                            !.open = @ \ {runs.task[t].browser}]
    /\ TaskFrame

InitTwo ==
    /\ mode = "two"
    /\ pages = <<>>
    /\ override = <<>>
    /\ siteTexts = <<>>
    /\ runs = [NoRuns EXCEPT !.task = [t \in Tasks |-> [NoRuns.task[t] EXCEPT !.pc = "start"]]]
    /\ pc = "info"
    /\ info = EmptyInfo
    /\ results = 0
    /\ acc = <<>>
    /\ requests = 0
    /\ tracks = <<>>
    /\ ug_playlist_name = <<>>
    /\ existing = <<>>
    /\ i = 1
    /\ successful_adds = 0
    /\ failed_adds = 0
    /\ retval = FALSE
    /\ exc = FALSE
    /\ playwright = FALSE
    /\ browser = FALSE
    /\ entered = FALSE
    /\ closed = FALSE
    /\ result = FALSE
    /\ preview = [info |-> EmptyInfo, tracks |-> <<>>]
    /\ trace = <<>>
    /\ reqlog = <<>>
    /\ signal = "none"
    /\ ClientIdle
    /\ NoCli

NextTwo ==
    \E t \in Tasks :
       \/ TaskStartDriver(t)
       \/ TaskLaunch(t)
       \/ TaskNewPage(t)
       \/ TaskBegin(t)
       \/ TaskComplete(t)
       \/ TaskClose(t)

SpecTwo == InitTwo /\ [][NextTwo]_vars

\* -------------------------------------------------- configuration and CLI
\* os.getenv(key, default)
Getenv(e, key, default) == IF e[key] = Absent THEN default ELSE e[key]

\* str.lower() and str.upper() on the values the environment can hold
Lower(v) == CASE v = "TRUE" -> "true"
              [] v = "True" -> "true"
              [] v = "False" -> "false"
              [] OTHER -> v
Upper(v) == CASE v = "debug" -> "DEBUG"
              [] v = "bogus" -> "BOGUS"
              [] OTHER -> v

\* os.getenv('HEADLESS_BROWSER', 'True').lower() == 'true'
HeadlessOf(e) == Lower(Getenv(e, "HEADLESS_BROWSER", "True")) = "true"

\* Config.__init__
MakeConfig(e) ==
    [k \in Required |-> e[k]] @@
    [spotify_redirect_uri |-> Getenv(e, "SPOTIFY_REDIRECT_URI",
                                     "http://localhost:8080/callback"),
     headless_browser     |-> HeadlessOf(e),
     log_level            |-> Upper(Getenv(e, "LOG_LEVEL", "INFO"))]

\* 'if not field_value'
Missing(v) == v = Absent \/ v = ""

\* an empty value passes for a present one
ValidatePresentOnly(c) == \A k \in Required : c[k] # Absent

\* Config.validate
Validate(c) == \A k \in Required : ~Missing(c[k])

\* getattr(logging, self.log_level) finds the level
LogLevelKnown(c) == c.log_level \in {"DEBUG", "INFO", "WARNING", "ERROR", "CRITICAL"}

Environments ==
    {r @@ o : r \in [Required -> {Absent, "", "v"}],
              o \in [SPOTIFY_REDIRECT_URI : {Absent, "http://other"},
                     HEADLESS_BROWSER : {Absent, "TRUE", "False", ""},
                     LOG_LEVEL : {Absent, "debug", "bogus"}]}

CommandLines ==
    [sync : BOOLEAN, preview : BOOLEAN, name : {<<>>, <<"b">>},
     headless : BOOLEAN, visible : BOOLEAN]

\* main: 'if not args.sync and not args.preview: print_help; return 1'
MainParse ==
    /\ mpc = "parse"
    /\ IF ~args.sync /\ ~args.preview
       THEN mpc' = "no_action" /\ status' = "1"
       ELSE mpc' = "config" /\ UNCHANGED status
    /\ UNCHANGED <<args, env, config, client, src, fetch, loop, session, sequencer>>

\* main: Config(), the headless override, setup_logging, validate
MainConfig ==
    /\ mpc = "config"
    /\ config' = [MakeConfig(env) EXCEPT !.headless_browser =
                     IF args.headless THEN TRUE
                     ELSE IF args.visible THEN FALSE
                     ELSE @]
    /\ IF ~LogLevelKnown(config')
       THEN mpc' = "unexpected" /\ status' = "1"
       ELSE IF ~Validate(config')
            THEN mpc' = "invalid" /\ status' = "1"
            ELSE mpc' = "dispatch" /\ UNCHANGED status
    /\ UNCHANGED <<args, env, client, src, fetch, loop, session, sequencer>>

\* --sync is looked at first
ModeOfSyncFirst(a) == IF a.sync THEN "sync" ELSE "preview"

\* 'if args.preview: ... elif args.sync: ...', one of the flags being set
ModeOf(a) == IF a.preview THEN "preview" ELSE "sync"

\* main: 'if args.preview: ... elif args.sync: ...', up to the call; the
\* service and the site are what they are at that moment
MainDispatch ==
    /\ mpc = "dispatch"
    /\ mode' = ModeOf(args)
    /\ override' = IF ModeOf(args) = "preview" THEN <<>> ELSE args.name
    /\ pages' \in SourcePages({"track"}, 1, MaxMainTracks)
    /\ siteTexts' \in SiteLists
    /\ pc' = "info"
    /\ mpc' = "running"
    /\ UNCHANGED <<args, env, config, status, client, fetch, loop, session,
                   ug_playlist_name, existing, retval, exc, signal, result,
                   preview, trace>>

\* main: what follows the return of preview_sync or sync_playlist; after the
\* preview's printing main returns None, which sys.exit takes as 0
MainFinish ==
    /\ mpc = "running"
    /\ pc = "returned"
    /\ mpc' = "done"
    /\ status' = IF mode = "preview"
                 THEN (IF preview.info # EmptyInfo /\ Len(preview.tracks) > 0
                       THEN "0" ELSE "1")
                 ELSE (IF result THEN "0" ELSE "1")
    /\ UNCHANGED <<args, env, config, client, src, fetch, loop, session, sequencer>>

\* main: a BaseException left sync_playlist. KeyboardInterrupt is caught by
\* main, which returns 1. CancelledError is caught by no clause of main: the
\* main task ends cancelled, asyncio.run raises KeyboardInterrupt outside
\* main and sys.exit is never reached; the interpreter ends on the uncaught
\* KeyboardInterrupt, with status 130 or, before Python 3.8, 1.
MainInterrupted ==
    /\ mpc = "running"
    /\ pc = "propagated"
    /\ mpc' = "interrupted"
    /\ IF signal = "KeyboardInterrupt"
       THEN status' = "1"
       ELSE status' \in {"1", "130"}
    /\ UNCHANGED <<args, env, config, client, src, fetch, loop, session, sequencer>>

InitMain ==
    /\ mode = "none"
    /\ pages = <<>>
    /\ override = <<>>
    /\ siteTexts = <<>>
    /\ pc = "idle"
    /\ info = EmptyInfo
    /\ results = 0
    /\ acc = <<>>
    /\ requests = 0
    /\ tracks = <<>>
    /\ ug_playlist_name = <<>>
    /\ existing = <<>>
    /\ i = 1
    /\ successful_adds = 0
    /\ failed_adds = 0
    /\ retval = FALSE
    /\ exc = FALSE
    /\ playwright = FALSE
    /\ browser = FALSE
    /\ entered = FALSE
    /\ closed = FALSE
    /\ result = FALSE
    /\ preview = [info |-> EmptyInfo, tracks |-> <<>>]
    /\ trace = <<>>
    /\ reqlog = <<>>
    /\ signal = "none"
    /\ runs = NoRuns
    /\ ClientIdle
    /\ args \in CommandLines
    /\ env \in Environments
    /\ config = NoConfig
    /\ mpc = "parse"
    /\ status = "none"

NextMain ==
    \/ MainParse
    \/ MainConfig
    \/ MainDispatch
    \/ MainFinish
    \/ MainInterrupted
    \/ GetPlaylistInfo
    \/ PlaylistTracksRequest
    \/ FetchIteration
    \/ PreviewReturn
    \/ EnterSession
    \/ Login
    \/ GetExistingPlaylists
    \/ CreatePlaylist
    \/ SearchAndAddSong
    \/ Sleep
    \/ Report
    \/ Interrupt
    \/ CloseBrowser

SpecMain == InitMain /\ [][NextMain]_vars

\* ---------------------------------------------------------- specifications
Next ==
    \/ GetPlaylistInfo
    \/ PlaylistTracksRequest
    \/ FetchIteration
    \/ EnterSession
    \/ Login
    \/ GetExistingPlaylists
    \/ CreatePlaylist
    \/ SearchAndAddSong
    \/ Sleep
    \/ Report
    \/ Interrupt
    \/ CloseBrowser

Spec == Init /\ [][Next]_vars

NextPreview ==
    \/ GetPlaylistInfo
    \/ PlaylistTracksRequest
    \/ FetchIteration
    \/ PreviewReturn

SpecPreview == InitPreview /\ [][NextPreview]_vars

\* either method of PlaylistSyncer is called, on the same sources
InitSyncer ==
    /\ mode \in {"sync", "preview"}
    /\ pages \in SourcePages({"track", "episode"}, MaxSyncPages, MaxSyncPageLen)
    /\ override \in (IF mode = "sync" THEN Overrides ELSE {<<>>})
    /\ siteTexts \in (IF mode = "sync" THEN SiteLists ELSE {<<>>})
    /\ InitCommon
    /\ ClientIdle
    /\ NoCli

NextSyncer ==
    \/ Next
    \/ PreviewReturn

SpecSyncer == InitSyncer /\ [][NextSyncer]_vars


\* ------------------------------------------------------------- properties
Ops(op) == {k \in 1..Len(trace) : trace[k].op = op}
OpsWith(op, out) == {k \in Ops(op) : trace[k].out = out}

IsSearch(e) == e.op = "search"
Searches == SelectSeq(trace, IsSearch)

\* every entry of the source, in page order and within-page order
RECURSIVE AllItems(_)
AllItems(ps) ==
    IF Len(ps) = 0 THEN <<>> ELSE AllItems(SubSeq(ps, 1, Len(ps) - 1)) \o ps[Len(ps)]

\* the source holds no item that yields a track
NoSourceTracks == \A k \in 1..Len(AllItems(pages)) : ~IsTrackItem(AllItems(pages)[k])

\* C1: in the attach loop search_and_add_song is invoked once per track, in
\* source order, whatever each attempt returns or raises, and when the loop
\* has ended successful_adds + failed_adds is the number of tracks.
C1_EveryTrackAttemptedAndCounted ==
    /\ Len(Searches) <= Len(tracks)
    /\ \A k \in 1..Len(Searches) : Searches[k].song = k
    /\ i > Len(tracks) =>
          /\ Len(Searches) = Len(tracks)
          /\ successful_adds + failed_adds = Len(tracks)

C1_Witness ==
    /\ pc = "returned"
    /\ Len(tracks) = 2
    /\ i > Len(tracks)
    /\ OpsWith("search", "Raise") # {}
    /\ OpsWith("search", "True") # {}

\* C2: sync_playlist returns True exactly when some search_and_add_song call
\* of the run returned True.
C2_TrueIffSomeAttachSucceeded ==
    (mode = "sync" /\ pc = "returned") => (result <=> OpsWith("search", "True") # {})

C2_Witness ==
    /\ pc = "returned"
    /\ result
    /\ OpsWith("search", "True") # {}
    /\ OpsWith("search", "False") # {}

\* C3: with a source of zero tracks no search_and_add_song call is made and
\* sync_playlist returns False, also when login and the playlist resolution
\* succeeded.
C3_EmptySourceFails ==
    (mode = "sync" /\ NoSourceTracks) =>
        /\ Ops("search") = {}
        /\ pc = "returned" => ~result

C3_Witness ==
    /\ pc = "returned"
    /\ NoSourceTracks
    /\ ~exc
    /\ OpsWith("login", "True") # {}
    /\ Ops("list") # {}
    /\ OpsWith("create", "False") = {}
    /\ closed

\* C4: create_playlist is never called with a name that one of the target
\* site's playlists bears.
C4_NoCreateWhenTargetExists ==
    \A k \in Ops("create") : trace[k].name \notin Range(PlaylistNames(siteTexts))

\* C5: after login() returned False none of get_existing_playlists,
\* create_playlist and search_and_add_song is called, and sync_playlist
\* returns False.
C5_LoginFailureAborts ==
    OpsWith("login", "False") # {} =>
        /\ Ops("list") = {} /\ Ops("create") = {} /\ Ops("search") = {}
        /\ pc = "returned" => ~result

C5_Witness ==
    /\ pc = "returned"
    /\ OpsWith("login", "False") # {}
    /\ Len(tracks) > 0

\* C6: after create_playlist returned False (it is called only for a name
\* missing from the listing) search_and_add_song is never called and
\* sync_playlist returns False.
C6_CreateFailureAborts ==
    /\ \A k \in Ops("create") : NotInExisting(trace[k].name, existing)
    /\ OpsWith("create", "False") # {} =>
          /\ Ops("search") = {}
          /\ pc = "returned" => ~result

C6_Witness ==
    /\ pc = "returned"
    /\ OpsWith("create", "False") # {}
    /\ Len(tracks) > 0

\* C7: when sync_playlist is left, by a return or by an exception, a session
\* that was entered has had close_browser run, as the last thing done.
C7_SessionClosedOnExit ==
    (pc \in {"returned", "propagated"} /\ entered) =>
        /\ closed
        /\ trace[Len(trace)].op = "close"
        /\ Cardinality(Ops("close")) = 1

C7_Witness ==
    /\ pc = "propagated"
    /\ closed
    /\ Ops("search") # {}
    /\ i <= Len(tracks)

C9_PagesConcatenated ==
    (mode = "preview" /\ pc = "returned" /\ preview.info = SourceInfo) =>
        /\ preview.tracks = AppendPage(<<>>, AllItems(pages))
        /\ requests = Len(pages)
        /\ \A k \in 1..Len(AllItems(pages)) :
              IsTrackItem(AllItems(pages)[k]) =>
                 Cardinality({n \in 1..Len(preview.tracks) :
                                 preview.tracks[n].spotify_id = AllItems(pages)[k].id}) = 1

C9_Witness ==
    /\ pc = "returned"
    /\ preview.info = SourceInfo
    /\ Len(pages) = 2
    /\ Len(pages[1]) = 2
    /\ Len(preview.tracks) = 3

\* C10: the returned records are those of the items whose track is present
\* and of media type "track", and of no other item, in the items' order.
C10_OnlyTracksInOrder ==
    (mode = "preview" /\ pc = "returned" /\ preview.info = SourceInfo) =>
        /\ \A k \in 1..Len(AllItems(pages)) :
              LET item == AllItems(pages)[k]
                  hits == {n \in 1..Len(preview.tracks) :
                              preview.tracks[n].spotify_id = item.id}
              IN  IF item.has_track /\ item.type = "track"
                  THEN hits # {}
                  ELSE hits = {}
        /\ \A m, n \in 1..Len(preview.tracks) :
              m < n => preview.tracks[m].spotify_id < preview.tracks[n].spotify_id

C10_Witness ==
    /\ pc = "returned"
    /\ preview.info = SourceInfo
    /\ \E k \in 1..Len(AllItems(pages)) : AllItems(pages)[k].type = "episode"
    /\ \E k \in 1..Len(AllItems(pages)) : ~AllItems(pages)[k].has_track
    /\ Len(preview.tracks) = 2


\* the entry of the source that bears an id
ItemOf(id) == AllItems(pages)[id]

PreviewSucceeded == mode = "preview" /\ pc = "returned" /\ preview.info = SourceInfo

\* C11: a returned record has the name and the album name of its source
\* item, and as artist the item's artist names in their order, separated
\* by ", ".
C11_RecordFields ==
    PreviewSucceeded =>
        \A n \in 1..Len(preview.tracks) :
            LET rec == preview.tracks[n]
                item == ItemOf(rec.spotify_id)
            IN  /\ rec.name = item.name
                /\ rec.album = item.album
                /\ Len(rec.artist) = 2 * Len(item.artists) - 1
                /\ \A j \in 1..Len(item.artists) : rec.artist[2 * j - 1] = item.artists[j]
                /\ \A j \in 1..(Len(item.artists) - 1) : rec.artist[2 * j] = ", "

C11_Witness ==
    /\ PreviewSucceeded
    /\ \E n \in 1..Len(preview.tracks) : preview.tracks[n].artist = <<"X">>
    /\ \E n \in 1..Len(preview.tracks) : preview.tracks[n].artist = <<"Y", ", ", "X">>

FailedRequests == {k \in 1..Len(reqlog) : ~reqlog[k].ok}

\* C12: a request that fails, for the playlist or for any page, is the last
\* request made, is made once, and the caller gets the exception and no
\* track list.
C12_FailedRequestAborts ==
    (mode = "preview" /\ FailedRequests # {}) =>
        /\ FailedRequests = {Len(reqlog)}
        /\ pc = "returned"
        /\ tracks = <<>>
        /\ preview = [info |-> EmptyInfo, tracks |-> <<>>]

C12_Witness ==
    /\ mode = "preview"
    /\ pc = "returned"
    /\ Len(reqlog) = 3
    /\ reqlog[3] = [req |-> "next", ok |-> FALSE]
    /\ Len(acc) > 0

\* C13: preview_sync starts no browser and calls no operation of the
\* target site, whether the source read succeeds or fails.
C13_PreviewTouchesNoTarget ==
    mode = "preview" =>
        /\ trace = <<>>
        /\ ~playwright /\ ~browser /\ ~entered /\ ~closed
        /\ method = "idle" /\ done = <<>> /\ ui = <<>>

C13_Witness ==
    /\ PreviewSucceeded
    /\ Len(preview.tracks) > 0


\* a method of the client has returned
Returned(m) == method = m /\ stage = 0

AllCompleted == \A k \in 1..Len(ui) : Completed(ui[k].out)

\* C14: login() returns True exactly after the form appeared, both fields
\* were filled, the form was submitted and the post-login marker appeared,
\* each without an exception; otherwise it returns False; it never raises.
C14_LoginTrueOnlyAfterMarker ==
    Returned("login") =>
        /\ ret \in {"True", "False"}
        /\ ret = "True" <=>
              ui = << Step("goto signin", "ok"), Step("wait form", "ok"),
                      Step("fill username", "ok"), Step("fill password", "ok"),
                      Step("click submit", "ok"), Step("wait marker", "ok") >>

C14_Witness ==
    /\ Returned("login")
    /\ ret = "False"
    /\ Len(ui) = 8
    /\ ui[6] = Step("wait marker", "raise")
    /\ ui[8] = Step("error text", "ok")

Spaces(n) == [k \in 1..n |-> " "]

\* r is t without its leading and trailing blanks
IsTrimOf(r, t) ==
    /\ \E a, b \in 0..Len(t) : t = Spaces(a) \o r \o Spaces(b)
    /\ Len(r) > 0 => (r[1] # " " /\ r[Len(r)] # " ")

IsNonEmpty(t) == Len(t) > 0

\* C15: get_existing_playlists never raises; after an exception of any page
\* call it returns []; otherwise it returns the trimmed text of every name
\* element with a non-empty text, in page order.
C15_ListingNeverRaises ==
    Returned("list") =>
        /\ ret = "list"
        /\ IF AllCompleted
           THEN LET texts == SelectSeq(siteTexts, IsNonEmpty) IN
                /\ Len(listed) = Len(texts)
                /\ \A k \in 1..Len(texts) : IsTrimOf(listed[k], texts[k])
           ELSE listed = <<>>

C15_Witness ==
    /\ Returned("list")
    /\ AllCompleted
    /\ siteTexts = << <<" ">>, <<"a", " ">> >>
    /\ listed = << <<>>, <<"a">> >>

\* C16: search_and_add_song returns True or False whatever each page call
\* does, and the client takes the next call afterwards.
C16_SearchNeverRaises ==
    /\ \A k \in 1..Len(done) : done[k].method = "search" => done[k].ret \in {"True", "False"}
    /\ method = "search" => ret \in {"none", "True", "False"}
    /\ Returned("search") => ret # "none"

C16_Witness ==
    /\ Len(done) = 2
    /\ done[1] = [method |-> "search", ret |-> "False"]
    /\ done[2].method = "search"
    /\ Returned("search")
    /\ ui[Len(ui)].out = "raise"

FullSearch == << "goto search", "wait results", "query first result",
                 "click first result", "settle", "query add control",
                 "click add control", "wait picker", "query playlist option",
                 "click playlist option" >>

\* C17: the page calls of search_and_add_song are made in the order of the
\* state machine, none skipped and none after one that failed; it returns
\* True exactly after the click on the playlist option, False after the
\* first call that fails; every call starts from the first stage.
C17_SearchStateMachine ==
    method = "search" =>
        /\ Len(ui) <= Len(FullSearch)
        /\ \A k \in 1..Len(ui) :
              /\ ui[k].call = FullSearch[k]
              /\ k < Len(ui) => Completed(ui[k].out)
        /\ stage # 0 => (stage = Len(ui) + 1 /\ AllCompleted /\ ret = "none")
        /\ stage = 0 =>
              /\ ret = "True" <=> (Len(ui) = Len(FullSearch) /\ AllCompleted)
              /\ ret = "False" <=> ~AllCompleted

C17_Witness ==
    /\ Len(done) = 2
    /\ done[1] = [method |-> "search", ret |-> "False"]
    /\ Returned("search")
    /\ ret = "True"
    /\ ui[Len(ui)] = Step("click playlist option", "ok")

\* main has left through one of its returns or through an exception
Exited == mpc \in {"no_action", "unexpected", "invalid", "done", "interrupted"}

\* the requested action succeeded
ActionSucceeded ==
    /\ mpc = "done"
    /\ IF mode = "preview"
       THEN preview.info # EmptyInfo /\ Len(preview.tracks) > 0
       ELSE result

\* Config() has been constructed
ConfigLoaded == mpc \notin {"parse", "config", "no_action"}

\* C18: the process ends with status 0 exactly when the requested action
\* succeeded (the preview gave a descriptor and tracks, or sync_playlist
\* returned True), and with status 1 on every other path: no action, invalid
\* configuration, failed preview, failed sync, keyboard interrupt, unexpected
\* exception.
C18_ExitStatus ==
    Exited => /\ status = "0" <=> ActionSucceeded
              /\ ~ActionSucceeded => status = "1"

\* C19: when an interrupt arrives while the browser session of a sync is
\* open, close_browser has run for that session by the time the process ends,
\* and the process ends with status 1.
C19_InterruptClosesThenExitsOne ==
    (Exited /\ signal # "none" /\ entered) => closed /\ status = "1"

\* C20: validate() is True exactly when the five required values are all
\* present and non-empty, whatever the optional values are; an absent
\* SPOTIFY_REDIRECT_URI gives the fixed redirect URI and an absent
\* HEADLESS_BROWSER gives headless = true.
C20_ValidateIffAllRequired ==
    /\ mpc = "invalid" => \E k \in Required : env[k] \in {Absent, ""}
    /\ mpc \in {"dispatch", "running", "done", "interrupted"} =>
           \A k \in Required : env[k] \notin {Absent, ""}
    /\ ConfigLoaded =>
          /\ env["SPOTIFY_REDIRECT_URI"] = Absent =>
                 config.spotify_redirect_uri = "http://localhost:8080/callback"
          /\ (env["HEADLESS_BROWSER"] = Absent /\ ~args.headless /\ ~args.visible) =>
                 config.headless_browser = TRUE

C20_Witness ==
    /\ mpc = "invalid"
    /\ \E k \in Required : /\ env[k] = ""
                           /\ \A j \in Required \ {k} : env[j] = "v"
    /\ env["SPOTIFY_REDIRECT_URI"] = Absent
    /\ env["HEADLESS_BROWSER"] = Absent
    /\ ~args.headless /\ ~args.visible
    /\ config.headless_browser = TRUE
    /\ config.spotify_redirect_uri = "http://localhost:8080/callback"

\* C22: the target-site operations of a sync run come in the order start,
\* login, get_existing_playlists, create_playlist if any, the
\* search_and_add_song calls, close; nothing precedes the start or follows
\* the close; the k-th search_and_add_song call is given the name and the
\* artist of the k-th track and the resolved playlist name. With two tracks,
\* a target playlist that is absent and two attaches that succeed,
\* create_playlist is called once and the run ends with 2 added, 0 failed.
C22_FixedOrderOfOperations ==
    mode = "sync" =>
      /\ \A k \in 1..Len(trace) :
            /\ k = 1 => trace[k].op = "start"
            /\ k = 2 => trace[k].op \in {"login", "close"}
            /\ k = 3 => trace[k].op \in {"list", "close"}
            /\ k = 4 => trace[k].op \in {"create", "search", "close"}
            /\ k > 4 => trace[k].op \in {"search", "sleep", "close"}
            /\ trace[k].op = "close" => k = Len(trace)
      /\ \A k \in 1..Len(Searches) :
            /\ Searches[k].song = k
            /\ Searches[k].song_name = tracks[k].name
            /\ Searches[k].artist_name = tracks[k].artist
            /\ Searches[k].name = ResolveName(override, info)
      /\ (/\ pc = "returned"
          /\ Len(tracks) = 2
          /\ OpsWith("list", "ok") # {}
          /\ ResolveName(override, info) \notin Range(PlaylistNames(siteTexts))
          /\ Cardinality(OpsWith("search", "True")) = 2) =>
             /\ Cardinality(Ops("create")) = 1
             /\ \E k \in Ops("sleep") :
                   trace[k - 1].op = "search" /\ trace[k + 1].op = "search"
             /\ successful_adds = 2
             /\ failed_adds = 0
             /\ result

C22_Witness ==
    /\ mode = "sync"
    /\ pc = "returned"
    /\ Len(tracks) = 2
    /\ tracks[1].artist # tracks[2].artist
    /\ OpsWith("list", "ok") # {}
    /\ ResolveName(override, info) \notin Range(PlaylistNames(siteTexts))
    /\ Cardinality(OpsWith("search", "True")) = 2
    /\ OpsWith("create", "True") # {}
    /\ trace[Len(trace)].op = "close"

\* C21: of two interleaved sync_playlist runs each has its own browser and
\* its own page: no browser or page belongs to both or is used by both, the
\* browser of a run that is inside its session is open whatever the other
\* run has closed, and a run has at most one target operation in flight.
C21_IndependentSessions ==
    \A t \in Tasks :
       /\ Cardinality(runs.task[t].pending) <= 1
       /\ runs.task[t].pc \in {"new_page", "body", "aexit"} =>
              runs.task[t].browser \in runs.open
       /\ \A u \in Tasks \ {t} :
             /\ runs.task[t].browser # 0 => runs.task[t].browser # runs.task[u].browser
             /\ runs.task[t].page # 0 => runs.task[t].page # runs.task[u].page
             /\ runs.task[t].used \cap runs.task[u].used = {}
             /\ runs.task[t].used \subseteq {runs.task[t].page}

C21_Witness ==
    /\ runs.task[1].pc = "returned"
    /\ runs.task[1].used # {}
    /\ runs.task[2].pc = "body"
    /\ runs.task[2].pending = {"search"}
    /\ runs.task[2].browser \in runs.open

\* the page calls of the current method, by name
Called(c) == {k \in 1..Len(ui) : ui[k].call = c}
CalledWith(c, out) == {k \in Called(c) : ui[k].out = out}

\* the clicks of create_playlist on a "create" control
CreateClicks == {k \in 1..Len(ui) : ui[k].call \in {CreateCalls[4], CreateCalls[5], CreateCalls[6]}}

\* C23: create_playlist tries the locators of the "create" control in the
\* order a[href*='create'], .btn-create-playlist, the combined plus-icon
\* selector; it clicks the first one that resolves and no other; it does not
\* return False for a control not found while a locator is untried.
C23_CreateLocatorsInOrder ==
    method = "create" =>
      /\ \A k \in Called(CreateCalls[3]) : ui[k - 1] = Step(CreateCalls[2], "none")
      /\ \A k \in Called(CreateCalls[4]) : ui[k - 1] = Step(CreateCalls[2], "found")
      /\ \A k \in Called(CreateCalls[5]) : ui[k - 1] = Step(CreateCalls[3], "found")
      /\ \A k \in Called(CreateCalls[6]) : ui[k - 1] = Step(CreateCalls[3], "none")
      /\ Cardinality(CreateClicks) <= 1
      /\ (stage = 0 /\ ret = "False") =>
            /\ ui[Len(ui)].out = "raise"
            /\ (CalledWith(CreateCalls[2], "none") # {} /\ CreateClicks = {}) =>
                   Called(CreateCalls[3]) # {}

C23_Witness ==
    /\ method = "create"
    /\ stage = 0
    /\ ret = "False"
    /\ Len(ui) = 4
    /\ ui[2] = Step(CreateCalls[2], "none")
    /\ ui[3] = Step(CreateCalls[3], "none")
    /\ ui[4] = Step(CreateCalls[6], "raise")

\* the attempts made for the k-th track
SearchesOf(k) == {j \in Ops("search") : trace[j].song = k}

\* C24: in a sync run login, get_existing_playlists and create_playlist are
\* each called at most once and no track is attempted twice; create_playlist
\* is called exactly when login returned True and the resolved name equals,
\* character for character, none of the names get_existing_playlists
\* returned (in a run that no interrupt ends before the call).
C24_NoRetryAndLiteralMatch ==
    mode = "sync" =>
      /\ Cardinality(Ops("login")) <= 1
      /\ Cardinality(Ops("list")) <= 1
      /\ Cardinality(Ops("create")) <= 1
      /\ \A k \in 1..Len(tracks) : Cardinality(SearchesOf(k)) <= 1
      /\ Ops("create") # {} =>
            /\ OpsWith("login", "True") # {}
            /\ Ops("list") # {}
            /\ \A n \in 1..Len(existing) : existing[n] # ug_playlist_name
      /\ (/\ OpsWith("login", "True") # {}
          /\ Ops("list") # {}
          /\ \A n \in 1..Len(existing) : existing[n] # ug_playlist_name
          /\ pc # "create"
          /\ ~exc) => Ops("create") # {}

C24_Witness ==
    /\ mode = "sync"
    /\ pc = "returned"
    /\ ug_playlist_name = <<"a">>
    /\ <<"A">> \in Range(existing)
    /\ OpsWith("create", "False") # {}
    /\ Ops("search") = {}

\* the name a sync started from the command line has to use
ExpectedName == IF Len(args.name) > 0 THEN args.name ELSE SourceName

\* the statements of sync_playlist after the name is resolved
NameResolved ==
    /\ pc \notin {"idle", "info", "first_page", "page_loop", "fetched"}
    /\ FailedRequests = {}

C25_NameUsedThroughout ==
    (mode = "sync" /\ NameResolved /\ info = SourceInfo) =>
       /\ ug_playlist_name = ExpectedName
       /\ \A k \in Ops("create") \cup Ops("search") : trace[k].name = ExpectedName
       /\ Ops("create") # {} => ExpectedName \notin Range(existing)
       /\ (Ops("list") # {} /\ Ops("create") = {} /\ Ops("search") # {}) =>
              ExpectedName \in Range(existing)

\* C25: the target playlist name is resolved once in a sync run, to --name
\* when it is given and to the name of the source playlist otherwise, and
\* that one name is what the existence check, create_playlist and every
\* search_and_add_song call of the run are given.
C25_NameResolvedOnce ==
    /\ []C25_NameUsedThroughout
    /\ [][NameResolved => ug_playlist_name' = ug_playlist_name]_vars

C25_Witness ==
    /\ mode = "sync"
    /\ mpc = "done"
    /\ args.name = <<"b">>
    /\ Ops("create") # {}
    /\ Cardinality(Ops("search")) = 2

\* C26: when sync_playlist has returned, a playwright driver that was
\* started has been stopped and a browser that was launched has been closed,
\* also when start_browser failed part-way and when browser.close() raised.
C26_TeardownComplete ==
    (mode = "sync" /\ pc = "returned") => (~playwright /\ ~browser)

\* C27: create_playlist returns True exactly when the click on the "create"
\* control, the wait for the form, the fill of the name and the click on the
\* submit button completed and the settle delay followed; it reads nothing
\* back from the playlists page, and after it sync_playlist goes on to the
\* attach loop without another get_existing_playlists.
C27_CreateIsOptimistic ==
    (mode = "sync" /\ method = "create") =>
      /\ (stage = 0 /\ ret # "none") =>
            (ret = "True" <=>
               /\ \E k \in CreateClicks : ui[k].out = "ok"
               /\ CalledWith(CreateCalls[7], "ok") # {}
               /\ CalledWith(CreateCalls[8], "ok") # {}
               /\ CalledWith(CreateCalls[11], "ok") # {}
               /\ ui[Len(ui)] = Step(CreateCalls[12], "ok"))
      /\ \A k \in 1..Len(ui) :
            /\ ui[k].call \in Range(CreateCalls)
            /\ ui[k].call = CreateCalls[1] => k = 1
            /\ (k > 1 /\ ui[k - 1].call = CreateCalls[11]) => ui[k].call = CreateCalls[12]
      /\ Cardinality(Ops("list")) <= 1
      /\ \A k \in Ops("create") :
            /\ \A j \in Ops("list") : j < k
            /\ (trace[k].out = "True" /\ k < Len(trace)) =>
                   trace[k + 1].op \in {"search", "close"}

C27_Witness ==
    /\ mode = "sync"
    /\ pc = "returned"
    /\ OpsWith("create", "True") # {}
    /\ OpsWith("search", "True") # {}
    /\ CalledWith(CreateCalls[9], "found") # {}
    /\ result

\* the browser session has been asked for
SessionTouched ==
    \/ playwright \/ browser \/ entered \/ closed
    \/ trace # <<>>
    \/ pc \in {"login", "list", "create", "loop", "sleep", "aexit", "propagated"}

\* C28: in sync_playlist the source is read to the end before the browser
\* session is asked for; when get_playlist_info or get_playlist_tracks
\* raises, sync_playlist returns False, no session is started and no
\* target-site operation is made.
C28_SourceReadBeforeSession ==
    mode = "sync" =>
      /\ SessionTouched =>
            /\ FailedRequests = {}
            /\ info = SourceInfo
            /\ results = 0
            /\ tracks = AppendPage(<<>>, AllItems(pages))
      /\ FailedRequests # {} =>
            /\ pc = "returned"
            /\ ~result
            /\ ~SessionTouched

C28_Witness ==
    /\ mode = "sync"
    /\ pc = "returned"
    /\ Len(reqlog) = 3
    /\ ~reqlog[3].ok
    /\ ~result
    /\ ~SessionTouched

\* start_browser raised: sync_playlist returned after a complete source read
\* without having entered the session
SessionStartRaised ==
    mode = "sync" /\ pc = "returned" /\ FailedRequests = {} /\ ~entered

\* an Exception reached the except clause at the end of sync_playlist
OuterExceptionRaised == FailedRequests # {} \/ SessionStartRaised

\* no Exception leaves either method, and preview_sync gives an empty
\* descriptor and no tracks when the source reader raised
NoExceptionPropagates ==
    /\ pc = "propagated" => signal \in {"KeyboardInterrupt", "CancelledError"}
    /\ (mode = "preview" /\ pc = "returned" /\ FailedRequests # {}) =>
          preview = [info |-> EmptyInfo, tracks |-> <<>>]

C30_PreviewNeverSyncs ==
    /\ args.preview =>
          /\ mode # "sync"
          /\ ~SessionTouched
          /\ ug_playlist_name = <<>>
    /\ mode = "sync" => (args.sync /\ ~args.preview)
    /\ (mpc \in {"running", "done", "interrupted"} /\ args.sync /\ ~args.preview) =>
          mode = "sync"

C30_Witness ==
    /\ args.preview
    /\ args.sync
    /\ mpc = "done"
    /\ mode = "preview"
    /\ Len(preview.tracks) > 0
    /\ status = "0"

====
